---- MODULE Spec2Model ----
(***************************************************************************)
(* Window lifecycle, message dispatch and session persistence of the iced  *)
(* application template: Application::{new, update, view, theme}, the      *)
(* window registry handlers of app/windows.rs and the session store of     *)
(* persistence/session.rs, and the ClickableText widget.                   *)
(*                                                                         *)
(* A Task returned by update is a chain (sequence) of effects; the runtime *)
(* holds the chains in flight in a bag and runs the head of any of them.   *)
(* Option<T> is a sequence of length 0 (None) or 1 (Some).                 *)
(***************************************************************************)
EXTENDS Bags, FiniteSets, Integers, Sequences, TLC

VARIABLES
    pc,             \* "running" | "exited" | "panicked": the process
    session,        \* Application.session
    current_theme,  \* the active theme name read by Application::theme
    features,       \* ApplicationState.features: feature kind -> its state slice
    windows,        \* ApplicationState.ui.windows: window id -> WindowInfo
    next_id,        \* the toolkit's next fresh window id (window::Id::unique)
    tasks,          \* bag of the effect chains in flight
    store,          \* the data directory and session.json on disk
    boot_store,     \* history: the store as Application::new found it
    saves,          \* history: calls of persistence::session::save in this run
    saved,          \* history: Some(session) handed to the last save if it returned Ok
    last,           \* history: the last entry-point call and what it returned
    widget          \* a ClickableText of a view with its tree state (None: no view builds one)

vars == <<pc, session, current_theme, features, windows, next_id, tasks,
          store, boot_store, saves, saved, last, widget>>

----------------------------------------------------------------------------
(* Bounds of the model *)

\* window ids the toolkit can hand out in one run
MaxWindows == 2
\* effect chains in flight at once
MaxTasks == 2

----------------------------------------------------------------------------
(* Option *)

None == <<>>
Some(x) == <<x>>

----------------------------------------------------------------------------
(* Window kinds and theme catalog *)

\* ApplicationWindow::Root, the enum's first (default) variant
Root == "Root"
\* The enum of window kinds. The template ships Root alone and is extended by adding
\* variants (app/features/mod.rs:10-12); Options is the variant its own
\* documentation registers beside Root (app/macros.rs:8-9).
ApplicationWindow == {Root, "Options"}

DEFAULT_THEME == "Light"

\* the fixed array of (name, iced::Theme) pairs
default_themes ==
    << <<"Light", "Light">>, <<"Dark", "Dark">>, <<"Dracula", "Dracula">>,
       <<"Nord", "Nord">>, <<"Solarized Light", "SolarizedLight">>,
       <<"Solarized Dark", "SolarizedDark">>, <<"Gruvbox Light", "GruvboxLight">>,
       <<"Gruvbox Dark", "GruvboxDark">>, <<"Catppuccin Latte", "CatppuccinLatte">>,
       <<"Catppuccin Frappé", "CatppuccinFrappe">>,
       <<"Catppuccin Macchiato", "CatppuccinMacchiato">>,
       <<"Catppuccin Mocha", "CatppuccinMocha">>, <<"Tokyo Night", "TokyoNight">>,
       <<"Tokyo Night Storm", "TokyoNightStorm">>,
       <<"Tokyo Night Light", "TokyoNightLight">>,
       <<"Kanagawa Wave", "KanagawaWave">>, <<"Kanagawa Dragon", "KanagawaDragon">>,
       <<"Kanagawa Lotus", "KanagawaLotus">>, <<"Moonfly", "Moonfly">>,
       <<"Nightfly", "Nightfly">>, <<"Oxocarbon", "Oxocarbon">>, <<"Ferra", "Ferra">> >>

\* UiState::default().themes: the catalog, name -> theme
themes ==
    LET names == {default_themes[i][1] : i \in DOMAIN default_themes}
    IN  [n \in names |->
            LET i == CHOOSE j \in DOMAIN default_themes : default_themes[j][1] = n
            IN  default_themes[i][2]]

\* theme names the model draws the active theme and the persisted preference from
ThemeNames == {"Tokyo Night", "Solarized"}

----------------------------------------------------------------------------
(* Session and its JSON text *)

ApplicationSession(theme) == [theme_selected |-> theme]
DefaultSession == ApplicationSession(None)

\* A session.json text: not JSON of the expected shape at all (valid = FALSE),
\* or an object whose theme_selected member is absent, null, a string or a number.
JsonText(valid, field, value) == [valid |-> valid, field |-> field, value |-> value]
JsonTexts ==
    {JsonText(FALSE, "absent", "")}
    \cup {JsonText(TRUE, f, "") : f \in {"absent", "null", "number"}}
    \cup {JsonText(TRUE, "string", n) : n \in ThemeNames}

\* mutant: the field is skipped when serializing, every session is written as null
to_string_pretty_skipping_field(s) == JsonText(TRUE, "null", "")

\* serde_json::to_string_pretty of the derived Serialize
to_string_pretty(s) ==
    IF s.theme_selected = None
    THEN JsonText(TRUE, "null", "")
    ELSE JsonText(TRUE, "string", s.theme_selected[1])

\* serde_json::from_str with the derived Deserialize: Ok as Some, Err as None
from_str(text) ==
    IF ~text.valid THEN None
    ELSE IF text.field \in {"absent", "null"} THEN Some(ApplicationSession(None))
    ELSE IF text.field = "string" THEN Some(ApplicationSession(Some(text.value)))
    ELSE None

----------------------------------------------------------------------------
(* Session store *)

Store(dir, file) == [dir |-> dir, file |-> file]
Stores ==
    {Store(FALSE, None), Store(TRUE, None)} \cup {Store(TRUE, Some(t)) : t \in JsonTexts}

\* what the file system can answer to one save
IoOutcomes(st) ==
    {"ok", "write_failed", "write_torn"} \cup (IF st.dir THEN {} ELSE {"mkdir_failed"})

\* persistence::session::save: [ok: the Result is Ok, store: the disk afterwards]
save(s, st, io) ==
    IF ~st.dir /\ io = "mkdir_failed" THEN [ok |-> FALSE, store |-> st]
    ELSE IF io = "write_failed" THEN [ok |-> FALSE, store |-> Store(TRUE, st.file)]
    ELSE IF io = "write_torn"
         THEN [ok |-> FALSE, store |-> Store(TRUE, Some(JsonText(FALSE, "absent", "")))]
    ELSE [ok |-> TRUE, store |-> Store(TRUE, Some(to_string_pretty(s)))]

\* persistence::session::load: Option<ApplicationSession>
load(st) ==
    IF ~st.dir THEN None
    ELSE IF st.file = None THEN None
    ELSE from_str(st.file[1])

\* mutant: the Default impl preselects the default theme
unwrap_or_default_theme(opt) ==
    IF opt = None THEN ApplicationSession(Some(DEFAULT_THEME)) ELSE opt[1]

\* Option::unwrap_or_default with ApplicationSession::default
unwrap_or_default(opt) == IF opt = None THEN DefaultSession ELSE opt[1]

----------------------------------------------------------------------------
(* Messages and effects *)

\* AppMessage flattened: the variant as tag, its payload as id (0: none) or kind
\* (Root: none)
Msg(tag, id, kind) == [tag |-> tag, id |-> id, kind |-> kind]
Close(id) == Msg("Close", id, Root)
Open(kind) == Msg("Open", 0, kind)
InitializeMainWindow == Msg("InitializeMainWindow", 0, Root)
ExitApplication == Msg("ExitApplication", 0, Root)
\* ExecuteCommand(cmd, args): the command line is carried whole in the kind field
ExecuteCommand(cmd) == Msg("ExecuteCommand", 0, cmd)
\* AppMessage::Feature(FeatureMessage::kind(msg)): the feature's message in the id field
Feature(kind, msg) == Msg("Feature", msg, kind)

\* One effect of a Task. from is history: the window id whose Close built the chain
\* (0: none), carried so that an exit check can be told from the close it follows.
Effect(op, tag, id, kind, from) ==
    [op |-> op, tag |-> tag, id |-> id, kind |-> kind, from |-> from]
window_open(id) == Effect("window_open", "", id, Root, 0)
window_close(id) == Effect("window_close", "", id, Root, id)
exit == Effect("exit", "", 0, Root, 0)
done(m, from) == Effect("done", m.tag, m.id, m.kind, from)

\* the bag of chains after update returned task (Task::none is the empty chain)
Returned(base, task) == IF task = <<>> THEN base ELSE base (+) SetToBag({task})

----------------------------------------------------------------------------
(* Window registry handlers *)

WindowInfo(kind, closed) == [window_type |-> kind, is_closed |-> closed]

\* ids no open call of the run ever returns
StaleIds == {MaxWindows + 1}

\* the ids the filter_map of the Open handler keeps for one kind
OpenIdsOf(w, kind) ==
    {id \in DOMAIN w : ~w[id].is_closed /\ w[id].window_type = kind}

\* mutant: the flag is flipped instead of set
close_window_toggling(w, id) ==
    [windows |-> IF id \in DOMAIN w
                 THEN [w EXCEPT ![id].is_closed = ~w[id].is_closed]
                 ELSE w,
     task |-> <<window_close(id), done(ExitApplication, id)>>]

\* mutant: the entry is removed from the registry instead of flagged
close_window_removing(w, id) ==
    [windows |-> [i \in DOMAIN w \ {id} |-> w[i]],
     task |-> <<window_close(id), done(ExitApplication, id)>>]

\* mutant: the exit check is chained before the toolkit close
close_window_checking_exit_first(w, id) ==
    [windows |-> IF id \in DOMAIN w THEN [w EXCEPT ![id].is_closed = TRUE] ELSE w,
     task |-> <<done(ExitApplication, id), window_close(id)>>]

\* mutant: the toolkit close is returned alone, no exit check is chained
close_window_without_exit_check(w, id) ==
    [windows |-> IF id \in DOMAIN w THEN [w EXCEPT ![id].is_closed = TRUE] ELSE w,
     task |-> <<window_close(id)>>]

\* mutant: an id the registry does not hold is answered with no work
close_window_returning_on_unknown(w, id) ==
    IF id \in DOMAIN w
    THEN [windows |-> [w EXCEPT ![id].is_closed = TRUE],
          task |-> <<window_close(id), done(ExitApplication, id)>>]
    ELSE [windows |-> w, task |-> <<>>]

\* close_window: the registry after it and the Task it returns
close_window(w, id) ==
    [windows |-> IF id \in DOMAIN w THEN [w EXCEPT ![id].is_closed = TRUE] ELSE w,
     task |-> <<window_close(id), done(ExitApplication, id)>>]

\* the for_each of exit_application: the two flags after visiting the entries in ids
RECURSIVE exit_scan(_, _, _)
exit_scan(w, ids, flags) ==
    IF ids = {} THEN flags
    ELSE LET id == CHOOSE i \in ids : TRUE
             hit == ~w[id].is_closed
             f2 == [main_window_closed |->
                        IF hit /\ w[id].window_type = Root
                        THEN FALSE ELSE flags.main_window_closed,
                    all_closed |-> IF hit THEN FALSE ELSE flags.all_closed]
         IN  exit_scan(w, ids \ {id}, f2)

\* mutant: the Root flag is dropped from the condition
should_exit_all_only(w) ==
    exit_scan(w, DOMAIN w, [main_window_closed |-> TRUE, all_closed |-> TRUE]).all_closed

\* mutant: any closed window ends the session
should_exit_any_closed(w) == \E id \in DOMAIN w : w[id].is_closed

\* mutant: the exit needs an entry of the Root kind that was closed
should_exit_needing_closed_root(w) ==
    /\ \E id \in DOMAIN w : w[id].window_type = Root /\ w[id].is_closed
    /\ ~\E id \in DOMAIN w : w[id].window_type = Root /\ ~w[id].is_closed

\* the condition of exit_application: all_closed || main_window_closed
should_exit(w) ==
    LET f == exit_scan(w, DOMAIN w, [main_window_closed |-> TRUE, all_closed |-> TRUE])
    IN  f.all_closed \/ f.main_window_closed

\* mutant: the exit is requested without saving the session
exit_application_skipping_save(s, w, st, io) ==
    IF should_exit(w)
    THEN [exits |-> FALSE, store |-> st, ok |-> FALSE, task |-> <<exit>>, log |-> "info"]
    ELSE [exits |-> FALSE, store |-> st, ok |-> FALSE, task |-> <<>>, log |-> "none"]

\* mutant: a failed save is returned to the caller with ? and the exit is not chained
exit_application_aborting_on_error(s, w, st, io) ==
    IF should_exit(w)
    THEN LET r == save(s, st, io)
         IN  [exits |-> TRUE, store |-> r.store, ok |-> r.ok,
              task |-> IF r.ok THEN <<exit>> ELSE <<>>,
              log |-> IF r.ok THEN "info" ELSE "error"]
    ELSE [exits |-> FALSE, store |-> st, ok |-> FALSE, task |-> <<>>, log |-> "none"]

\* exit_application with save_current_session inlined; io is the disk's answer
exit_application(s, w, st, io) ==
    IF should_exit(w)
    THEN LET r == save(s, st, io)
         IN  [exits |-> TRUE, store |-> r.store, ok |-> r.ok, task |-> <<exit>>,
              log |-> IF r.ok THEN "info" ELSE "error"]
    ELSE [exits |-> FALSE, store |-> st, ok |-> FALSE, task |-> <<>>, log |-> "none"]

\* what the resources directory answers to one lookup: resolved beside the
\* executable; resolved but the file is unreadable; unresolved but found under the
\* working directory; found nowhere (canonicalize().unwrap() panics)
ResourceOutcomes == {"resolved", "unreadable", "cwd_fallback", "unresolvable"}

\* invoke_window: id is the fresh id iced::window::open returns
invoke_window(w, id, kind, res) ==
    IF res = "unresolvable"
    THEN [panic |-> TRUE, windows |-> w, task |-> <<>>, log |-> "warn"]
    ELSE [panic |-> FALSE,
          windows |-> (id :> WindowInfo(kind, FALSE)) @@ w,
          task |-> <<window_open(id)>>,
          log |-> IF res = "resolved" THEN "info" ELSE "warn"]

----------------------------------------------------------------------------
(* Feature registration *)

\* The table handed to register_features!: Root as shipped, Options as the macro's
\* documentation registers it.
register_features ==
    << [variant |-> Root, module |-> "root",
        width |-> 768, height |-> 768, position |-> "Centered"],
       [variant |-> "Options", module |-> "settings",
        width |-> 768, height |-> 460, position |-> "Centered"] >>

\* the variants one repetition of the macro expands over, and the row of a variant
Variants == {register_features[i].variant : i \in DOMAIN register_features}
RowOf(variant) ==
    register_features[CHOOSE i \in DOMAIN register_features :
                          register_features[i].variant = variant]

\* the arms of route_feature_update: FeatureMessage variant -> module whose update
\* is called
route_feature_update_arms == [v \in Variants |-> RowOf(v).module]

\* the arms of ApplicationWindow::view: window kind -> module whose view is called
view_arms == [v \in Variants |-> RowOf(v).module]

\* mutant: the size arms are written by hand and Options was forgotten
default_size_by_hand == [v \in {Root} |-> <<RowOf(v).width, RowOf(v).height>>]

\* the arms of ApplicationWindow::default_size and default_position
default_size == [v \in Variants |-> <<RowOf(v).width, RowOf(v).height>>]
default_position == [v \in Variants |-> RowOf(v).position]

----------------------------------------------------------------------------
(* Feature router *)

\* The values of a feature's state slice and of its messages. The shipped features
\* declare an empty State and an empty Message enum to be filled in; the model's
\* feature keeps the last message it was sent.
State == {0, 1}
Message == {0, 1}

\* FeaturesState::default(): every feature's State::default()
FeaturesState == [kind \in Variants |-> 0]

\* a feature's update(state, msg): the slice after the call
feature_update(state, msg) == msg

\* mutant: the whole features state is rebuilt around the routed slice
route_feature_update_resetting_others(state, kind, msg) ==
    [k \in DOMAIN state |-> IF k = kind THEN feature_update(state[k], msg) ELSE 0]

\* route_feature_update: the features state after the message of feature kind
route_feature_update(state, kind, msg) ==
    [state EXCEPT ![kind] = feature_update(state[kind], msg)]

----------------------------------------------------------------------------
(* Application::theme and Application::view *)

\* Application::theme: the theme returned and the level it logs at
theme(name, s) ==
    IF name \in DOMAIN themes
    THEN [theme |-> themes[name], log |-> "none"]
    ELSE [theme |-> "Dark",
          log |-> IF s.theme_selected # None THEN "warn" ELSE "none"]

\* mutant: an unknown id is shown the Root feature
view_defaulting_to_root(w, id) ==
    IF id \in DOMAIN w
    THEN [found |-> TRUE, kind |-> w[id].window_type]
    ELSE [found |-> TRUE, kind |-> Root]

\* the element view returns: the kind's feature view, or the placeholder
view(w, id) ==
    IF \E wnd_id \in DOMAIN w : wnd_id = id
    THEN [found |-> TRUE, kind |-> w[id].window_type]
    ELSE [found |-> FALSE, kind |-> Root]

----------------------------------------------------------------------------
(* Application::new *)

Last(tag, id, kind, from, out, log) ==
    [tag |-> tag, id |-> id, kind |-> kind, from |-> from, out |-> out, log |-> log]

\* The state new() leaves: st is the disk, name the default active theme, res the
\* answer to load_font's resources lookup.
new(st, name, res) ==
    [pc |-> IF res = "unresolvable" THEN "panicked" ELSE "running",
     session |-> unwrap_or_default(load(st)),
     current_theme |-> name,
     features |-> FeaturesState,
     windows |-> <<>>,
     tasks |-> IF res = "unresolvable" THEN EmptyBag
               ELSE SetToBag({<<done(InitializeMainWindow, 0)>>}),
     last |-> Last("new", 0, Root, 0, IF res = "unresolvable" THEN "panic" ELSE "ok",
                   IF res = "unresolvable" THEN "warn" ELSE "none")]

\* the states new() can leave on the disks of S
InitOn(S) ==
    \E st \in S, name \in ThemeNames, res \in ResourceOutcomes :
        LET n == new(st, name, res)
        IN  /\ pc = n.pc
            /\ session = n.session
            /\ current_theme = n.current_theme
            /\ features = n.features
            /\ windows = n.windows
            /\ tasks = n.tasks
            /\ last = n.last
            /\ next_id = 1
            /\ store = st
            /\ boot_store = st
            /\ saves = 0
            /\ saved = None
            /\ widget = None

----------------------------------------------------------------------------
(* platform::commands::execute_cmd *)

\* Bytes a process wrote: a sequence of characters, InvalidByte standing for a byte
\* that is no UTF-8.
InvalidByte == "\\xFF"

\* String::from_utf8_lossy: an invalid byte becomes the replacement character
RECURSIVE from_utf8_lossy(_)
from_utf8_lossy(bytes) ==
    IF bytes = <<>> THEN ""
    ELSE (IF Head(bytes) = InvalidByte THEN "\\uFFFD" ELSE Head(bytes))
         \o from_utf8_lossy(Tail(bytes))

\* what process::Command::output() answers: the process could not be spawned, or
\* the bytes it wrote to stdout and stderr
Output(spawned, stdout, stderr) ==
    [spawned |-> spawned, stdout |-> stdout, stderr |-> stderr]

\* the command lines the model runs, and what running each answers
Commands == {"true", "echo ok", "ls no", "make", "cat blob", "missing"}
output(cmd) ==
    CASE cmd = "true"     -> Output(TRUE, <<>>, <<>>)
      [] cmd = "echo ok"  -> Output(TRUE, <<"o", "k">>, <<>>)
      [] cmd = "ls no"    -> Output(TRUE, <<>>, <<"n", "o">>)
      [] cmd = "make"     -> Output(TRUE, <<"o", "k">>, <<"w", InvalidByte>>)
      [] cmd = "cat blob" -> Output(TRUE, <<"o", InvalidByte>>, <<>>)
      [] OTHER            -> Output(FALSE, <<>>, <<>>)

\* Result<String>: Ok(text), or Err of an error made from the message text
Result(ok, text) == [ok |-> ok, text |-> text]

\* mutant: the captured stdout is returned whatever was written to stderr
execute_cmd_ignoring_stderr(cmd) ==
    LET o == output(cmd)
    IN  IF ~o.spawned THEN Result(FALSE, "io")
        ELSE Result(TRUE, from_utf8_lossy(o.stdout))

\* execute_cmd
execute_cmd(cmd) ==
    LET o == output(cmd)
    IN  IF ~o.spawned THEN Result(FALSE, "io")
        ELSE IF o.stderr # <<>>
             THEN Result(FALSE, "Failed to execute command: " \o from_utf8_lossy(o.stderr))
        ELSE IF o.stdout # <<>> THEN Result(TRUE, from_utf8_lossy(o.stdout))
        ELSE Result(TRUE, "")

----------------------------------------------------------------------------
(* Application::update *)

\* the process aborts: a panic unwinds out of the event loop
Panic(m, from) ==
    /\ pc' = "panicked"
    /\ tasks' = EmptyBag
    /\ last' = Last(m.tag, m.id, m.kind, from, "panic", "warn")
    /\ UNCHANGED <<session, current_theme, widget, features, windows, next_id, store, boot_store,
                   saves, saved>>

Invoke(m, from, base, kind) ==
    /\ next_id <= MaxWindows
    /\ \E res \in ResourceOutcomes :
        LET r == invoke_window(windows, next_id, kind, res)
        IN  IF r.panic THEN Panic(m, from)
            ELSE /\ windows' = r.windows
                 /\ next_id' = next_id + 1
                 /\ tasks' = Returned(base, r.task)
                 /\ last' = Last(m.tag, m.id, m.kind, from, "opened", r.log)
                 /\ UNCHANGED <<pc, session, current_theme, widget, features, store,
                                boot_store, saves, saved>>

UpdateClose(m, from, base) ==
    /\ m.tag = "Close"
    /\ LET r == close_window(windows, m.id)
       IN  /\ windows' = r.windows
           /\ tasks' = Returned(base, r.task)
           /\ last' = Last(m.tag, m.id, m.kind, from,
                           IF m.id \notin DOMAIN windows THEN "unknown"
                           ELSE IF windows[m.id].is_closed THEN "already_closed"
                           ELSE "closed",
                           IF m.id \in DOMAIN windows THEN "info" ELSE "none")
    /\ UNCHANGED <<pc, session, current_theme, widget, features, next_id, store, boot_store,
                   saves, saved>>

\* mutant: the early return of the toggle is missing
UpdateOpen_always_invoking(m, from, base) ==
    /\ m.tag = "Open"
    /\ Invoke(m, from, base, m.kind)

\* the Open arm of update
UpdateOpen(m, from, base) ==
    /\ m.tag = "Open"
    /\ IF OpenIdsOf(windows, m.kind) # {}
       THEN \E open_window_id \in OpenIdsOf(windows, m.kind) :
                /\ tasks' = Returned(base, <<done(Close(open_window_id), 0)>>)
                /\ last' = Last(m.tag, m.id, m.kind, from, "toggle_close", "none")
                /\ UNCHANGED <<pc, session, current_theme, widget, features, windows, next_id,
                               store, boot_store, saves, saved>>
       ELSE Invoke(m, from, base, m.kind)

UpdateInitializeMainWindow(m, from, base) ==
    /\ m.tag = "InitializeMainWindow"
    /\ Invoke(m, from, base, Root)

\* mutant: the exit check resets the session before saving it
UpdateExitApplication_clearing_session(m, from, base) ==
    /\ m.tag = "ExitApplication"
    /\ \E io \in IoOutcomes(store) :
        LET r == exit_application(DefaultSession, windows, store, io)
        IN  /\ tasks' = Returned(base, r.task)
            /\ store' = r.store
            /\ session' = IF r.exits THEN DefaultSession ELSE session
            /\ saves' = IF r.exits THEN saves + 1 ELSE saves
            /\ saved' = IF ~r.exits THEN saved
                        ELSE IF r.ok THEN Some(DefaultSession) ELSE None
            /\ last' = Last(m.tag, m.id, m.kind, from,
                            IF r.exits THEN "exit" ELSE "noop", r.log)
    /\ UNCHANGED <<pc, current_theme, widget, features, windows, next_id, boot_store>>

UpdateExitApplication(m, from, base) ==
    /\ m.tag = "ExitApplication"
    /\ \E io \in IoOutcomes(store) :
        LET r == exit_application(session, windows, store, io)
        IN  /\ tasks' = Returned(base, r.task)
            /\ store' = r.store
            /\ saves' = IF r.exits THEN saves + 1 ELSE saves
            /\ saved' = IF ~r.exits THEN saved
                        ELSE IF r.ok THEN Some(session) ELSE None
            /\ last' = Last(m.tag, m.id, m.kind, from,
                            IF r.exits THEN "exit" ELSE "noop", r.log)
    /\ UNCHANGED <<pc, session, current_theme, widget, features, windows, next_id, boot_store>>

\* mutant: the result of execute_cmd is unwrapped
UpdateExecuteCommand_unwrapping(m, from, base) ==
    /\ m.tag = "ExecuteCommand"
    /\ LET r == execute_cmd(m.kind)
       IN  IF ~r.ok THEN Panic(m, from)
           ELSE /\ tasks' = Returned(base, <<>>)
                /\ last' = Last(m.tag, m.id, m.kind, from, r.text, "info")
                /\ UNCHANGED <<pc, session, current_theme, widget, features, windows, next_id,
                               store, boot_store, saves, saved>>

\* the ExecuteCommand arm: the call blocks until the process ended, the Err is
\* logged, the Ok value dropped; out is history, the text execute_cmd returned
UpdateExecuteCommand(m, from, base) ==
    /\ m.tag = "ExecuteCommand"
    /\ LET r == execute_cmd(m.kind)
       IN  /\ tasks' = Returned(base, <<>>)
           /\ last' = Last(m.tag, m.id, m.kind, from, r.text,
                           IF r.ok THEN "info" ELSE "error")
    /\ UNCHANGED <<pc, session, current_theme, widget, features, windows, next_id, store, boot_store,
                   saves, saved>>

\* the Feature arm: the message is routed to its feature's update, which returns
\* no further work
UpdateFeature(m, from, base) ==
    /\ m.tag = "Feature"
    /\ features' = route_feature_update(features, m.kind, m.id)
    /\ tasks' = Returned(base, <<>>)
    /\ last' = Last(m.tag, m.id, m.kind, from, "routed", "none")
    /\ UNCHANGED <<pc, session, current_theme, widget, windows, next_id, store, boot_store,
                   saves, saved>>

\* update(message) with the chains base in flight beside the task it returns
Update(m, from, base) ==
    \/ UpdateClose(m, from, base)
    \/ UpdateOpen(m, from, base)
    \/ UpdateInitializeMainWindow(m, from, base)
    \/ UpdateExitApplication(m, from, base)
    \/ UpdateExecuteCommand(m, from, base)
    \/ UpdateFeature(m, from, base)

----------------------------------------------------------------------------
(* The runtime: effects, events and renders *)

\* the chains in flight once the head of chain has run
Advanced(chain) ==
    LET rest == Tail(chain)
        others == tasks (-) SetToBag({chain})
    IN  IF rest = <<>> THEN others ELSE others (+) SetToBag({rest})

\* the toolkit opens the window of a window::open effect; the chain yields nothing
OpenWindow ==
    /\ pc = "running"
    /\ \E chain \in BagToSet(tasks) :
        /\ Head(chain).op = "window_open"
        /\ tasks' = Advanced(chain)
    /\ UNCHANGED <<pc, session, current_theme, widget, features, windows, next_id, store, boot_store,
                   saves, saved, last>>

\* the toolkit closes the window of a window::close effect
CloseWindow ==
    /\ pc = "running"
    /\ \E chain \in BagToSet(tasks) :
        /\ Head(chain).op = "window_close"
        /\ tasks' = Advanced(chain)
    /\ UNCHANGED <<pc, session, current_theme, widget, features, windows, next_id, store, boot_store,
                   saves, saved, last>>

\* the runtime acts on iced::exit(): the event loop ends
Exit ==
    /\ pc = "running"
    /\ \E chain \in BagToSet(tasks) : Head(chain).op = "exit"
    /\ pc' = "exited"
    /\ tasks' = EmptyBag
    /\ UNCHANGED <<session, current_theme, widget, features, windows, next_id, store, boot_store,
                   saves, saved, last>>

\* a Task::done(message) resolves and the message is handed to update
Deliver ==
    /\ pc = "running"
    /\ \E chain \in BagToSet(tasks) :
        /\ Head(chain).op = "done"
        /\ Update(Msg(Head(chain).tag, Head(chain).id, Head(chain).kind),
                  Head(chain).from, Advanced(chain))

\* iced::Event, as far as the closure of subscription tells events apart
ToolkitEvent(class, event) == [class |-> class, event |-> event]
WindowCloseRequested == ToolkitEvent("Window", "CloseRequested")
ToolkitEvents ==
    {WindowCloseRequested, ToolkitEvent("Window", "Closed"),
     ToolkitEvent("Mouse", "CursorMoved")}

\* mutant: every window event of a window asks for its close
subscription_closing_on_window_events(event, id) ==
    IF event.class = "Window" THEN Some(Close(id)) ELSE None

\* the closure subscription hands to listen_with: Option<AppMessage>
subscription(event, id) ==
    IF event = WindowCloseRequested THEN Some(Close(id)) ELSE None

\* the runtime runs the subscription on an event of window id and hands the message
\* it produced, if any, to update
Listen(event, id) ==
    /\ pc = "running"
    /\ LET m == subscription(event, id)
       IN  IF m = None
           THEN /\ last' = Last("subscription", id, Root, 0, "None", "none")
                /\ UNCHANGED <<pc, session, current_theme, widget, features, windows, next_id, tasks,
                               store, boot_store, saves, saved>>
           ELSE /\ BagCardinality(tasks) < MaxTasks
                /\ Update(m[1], 0, tasks)

\* subscription: the CloseRequested event of a window the toolkit was asked to
\* open becomes Close(id); the event can arrive after the entry was closed
CloseRequested ==
    \E id \in DOMAIN windows : Listen(WindowCloseRequested, id)

\* any other event of such a window
OtherEvent ==
    \E event \in ToolkitEvents \ {WindowCloseRequested}, id \in DOMAIN windows :
        Listen(event, id)

\* the messages the Task a feature's update returns can hand to update: every
\* variant of WindowMessage and SystemMessage
FeatureMessages ==
    {Open(kind) : kind \in ApplicationWindow}
    \cup {Close(id) : id \in StaleIds}
    \cup {InitializeMainWindow, ExitApplication}
    \cup {ExecuteCommand(cmd) : cmd \in Commands}

Dispatch ==
    /\ pc = "running"
    /\ DOMAIN windows # {}
    /\ BagCardinality(tasks) < MaxTasks
    /\ \E m \in FeatureMessages : Update(m, 0, tasks)

\* a feature asks for a window of a kind: Open(kind) is handed to update
OpenRequested ==
    /\ pc = "running"
    /\ DOMAIN windows # {}
    /\ BagCardinality(tasks) < MaxTasks
    /\ \E kind \in ApplicationWindow : Update(Open(kind), 0, tasks)

\* a widget of a window's view publishes a message of a feature
Publish ==
    /\ pc = "running"
    /\ DOMAIN windows # {}
    /\ BagCardinality(tasks) < MaxTasks
    /\ \E kind \in ApplicationWindow, msg \in Message :
        Update(Feature(kind, msg), 0, tasks)

\* the runtime asks for the view of a window id
View ==
    /\ pc = "running"
    /\ \E id \in DOMAIN windows \cup StaleIds :
        LET r == view(windows, id)
        IN  last' = Last("view", id, r.kind, 0,
                         IF r.found THEN "feature" ELSE "Window not found", "none")
    /\ UNCHANGED <<pc, session, current_theme, widget, features, windows, next_id, tasks,
                   store, boot_store, saves, saved>>

\* the runtime asks for the theme
Theme ==
    /\ pc = "running"
    /\ LET r == theme(current_theme, session)
       IN  last' = Last("theme", 0, Root, 0, r.theme, r.log)
    /\ UNCHANGED <<pc, session, current_theme, widget, features, windows, next_id, tasks,
                   store, boot_store, saves, saved>>

\* the program is started again on the disk the last run left
Relaunch ==
    /\ pc \in {"exited", "panicked"}
    /\ \E name \in ThemeNames, res \in ResourceOutcomes :
        LET n == new(store, name, res)
        IN  /\ pc' = n.pc
            /\ session' = n.session
            /\ current_theme' = n.current_theme
            /\ features' = n.features
            /\ windows' = n.windows
            /\ tasks' = n.tasks
            /\ last' = n.last
    /\ next_id' = 1
    /\ boot_store' = store
    /\ saves' = 0
    /\ saved' = None
    /\ UNCHANGED <<store, widget>>

----------------------------------------------------------------------------
(* Specifications *)

\* One run of the program under every message its windows and features can send,
\* started on a first-run disk or on a disk holding a saved preference.
FirstRunStores ==
    {Store(FALSE, None), Store(TRUE, Some(JsonText(TRUE, "string", "Tokyo Night")))}

Init == InitOn(FirstRunStores)

Next ==
    \/ OpenWindow
    \/ CloseWindow
    \/ Exit
    \/ Deliver
    \/ CloseRequested
    \/ Dispatch

Spec == Init /\ [][Next]_vars

\* Run after run of the program on every disk, with a user who only uses the
\* windows' own controls, under every event and render of the toolkit: what one
\* run saves is what the next run loads.
InitSession == InitOn(Stores)

NextSession ==
    \/ OpenWindow
    \/ CloseWindow
    \/ Exit
    \/ Deliver
    \/ CloseRequested
    \/ OtherEvent
    \/ Publish
    \/ View
    \/ Theme
    \/ Relaunch

SpecSession == InitSession /\ [][NextSession]_vars

\* One first run, on a disk with no stored session, in which windows are opened
\* and closed through Open alone. The runtime does not stop while an effect it
\* was handed is ready to run or a resolved message is ready to be delivered.
InitToggle == InitOn({Store(FALSE, None)})

RuntimeStep ==
    \/ OpenWindow
    \/ CloseWindow
    \/ Exit
    \/ Deliver

NextToggle ==
    \/ OpenWindow
    \/ CloseWindow
    \/ Exit
    \/ Deliver
    \/ OpenRequested

SpecToggle == InitToggle /\ [][NextToggle]_vars /\ WF_vars(RuntimeStep)

\* The exit check on its own. update is handed ExitApplication on every registry
\* of at most MaxWindows entries, among them the empty one and those that never
\* held a Root entry, which no run that begins with InitializeMainWindow passes
\* through; no further window can be opened.
Registries ==
    UNION {[ids -> {WindowInfo(kind, closed) : kind \in ApplicationWindow,
                                               closed \in BOOLEAN}] :
           ids \in SUBSET (1 .. MaxWindows)}

InitExitCheck ==
    \E w \in Registries, st \in FirstRunStores, name \in ThemeNames :
        LET n == new(st, name, "resolved")
        IN  /\ pc = n.pc
            /\ session = n.session
            /\ current_theme = n.current_theme
            /\ features = n.features
            /\ windows = w
            /\ tasks = EmptyBag
            /\ last = n.last
            /\ next_id = MaxWindows + 1
            /\ store = st
            /\ boot_store = st
            /\ saves = 0
            /\ saved = None
            /\ widget = None

\* ExitApplication is handed to update
ExitRequested ==
    /\ pc = "running"
    /\ BagCardinality(tasks) < MaxTasks
    /\ Update(ExitApplication, 0, tasks)

NextExitCheck ==
    \/ ExitRequested
    \/ Exit

SpecExitCheck == InitExitCheck /\ [][NextExitCheck]_vars

----------------------------------------------------------------------------
(* widgets::ClickableText *)

\* the events the match of ClickableText::update tells apart, and some it does not
LeftPressed == ToolkitEvent("Mouse", "ButtonPressed(Left)")
LeftReleased == ToolkitEvent("Mouse", "ButtonReleased(Left)")
MouseButtons == {"Left", "Right", "Middle"}
ButtonPressed(button) == ToolkitEvent("Mouse", "ButtonPressed(" \o button \o ")")
ButtonReleased(button) == ToolkitEvent("Mouse", "ButtonReleased(" \o button \o ")")
CursorMoved == ToolkitEvent("Mouse", "CursorMoved")

\* ClickableText::state: the tree state of a widget just built
clickable_text_state == [is_pressed |-> FALSE]

\* mutant: the release publishes wherever the cursor is
clickable_text_update_ignoring_cursor(passed_message, state, event, is_over) ==
    IF passed_message # None /\ event = LeftPressed /\ is_over
    THEN [state |-> [state EXCEPT !.is_pressed = TRUE], published |-> None]
    ELSE IF passed_message # None /\ event = LeftReleased /\ state.is_pressed
    THEN [state |-> [state EXCEPT !.is_pressed = FALSE], published |-> passed_message]
    ELSE [state |-> state, published |-> None]

\* mutant: a release outside the widget leaves the press pending
clickable_text_update_keeping_press(passed_message, state, event, is_over) ==
    IF passed_message # None /\ event = LeftPressed /\ is_over
    THEN [state |-> [state EXCEPT !.is_pressed = TRUE], published |-> None]
    ELSE IF passed_message # None /\ event = LeftReleased /\ state.is_pressed /\ is_over
    THEN [state |-> [state EXCEPT !.is_pressed = FALSE], published |-> passed_message]
    ELSE [state |-> state, published |-> None]

\* ClickableText::update: the tree state after the event, and the message handed
\* to shell.publish, if any; is_over is cursor.is_over(layout.bounds())
clickable_text_update(passed_message, state, event, is_over) ==
    IF passed_message # None
    THEN IF event = LeftPressed
         THEN [state |-> IF is_over THEN [state EXCEPT !.is_pressed = TRUE] ELSE state,
               published |-> None]
         ELSE IF event = LeftReleased
         THEN IF state.is_pressed
              THEN [state |-> [state EXCEPT !.is_pressed = FALSE],
                    published |-> IF is_over THEN passed_message ELSE None]
              ELSE [state |-> state, published |-> None]
         ELSE [state |-> state, published |-> None]
    ELSE [state |-> state, published |-> None]

\* A widget built with on_press_maybe(passed_message), before any event. shell is
\* the messages published and not yet taken by the runtime; event, is_over and
\* published are history of the last call of update; armed is history: a left
\* press over the widget was seen and no left release since, was_armed is armed
\* as the last call found it.
ClickableText(passed_message) ==
    [passed_message |-> passed_message, state |-> clickable_text_state,
     shell |-> <<>>, event |-> None, is_over |-> FALSE, published |-> None,
     armed |-> FALSE, was_armed |-> FALSE]

\* the runtime hands an event to the widget's update
WidgetEvent(event) ==
    /\ pc = "running"
    /\ Len(widget.shell) < MaxTasks
    /\ \E is_over \in BOOLEAN :
        LET r == clickable_text_update(widget.passed_message, widget.state, event, is_over)
        IN  widget' = [widget EXCEPT
                          !.state = r.state,
                          !.shell = @ \o r.published,
                          !.event = Some(event),
                          !.is_over = is_over,
                          !.published = r.published,
                          !.was_armed = widget.armed,
                          !.armed = IF event = LeftPressed /\ is_over THEN TRUE
                                    ELSE IF event = LeftReleased THEN FALSE
                                    ELSE @]
    /\ UNCHANGED <<pc, session, current_theme, features, windows, next_id, tasks, store,
                   boot_store, saves, saved, last>>

Pressed == \E button \in MouseButtons : WidgetEvent(ButtonPressed(button))
Released == \E button \in MouseButtons : WidgetEvent(ButtonReleased(button))
Moved == WidgetEvent(CursorMoved)

\* the runtime takes the oldest published message out of the shell
DrainShell ==
    /\ pc = "running"
    /\ widget.shell # <<>>
    /\ widget' = [widget EXCEPT !.shell = Tail(@)]
    /\ UNCHANGED <<pc, session, current_theme, features, windows, next_id, tasks, store,
                   boot_store, saves, saved, last>>

\* One widget, built with or without a message, under every sequence of mouse
\* events and cursor positions.
InitWidget ==
    \E passed_message \in {None} \cup {Some(m) : m \in Message} :
        LET n == new(Store(FALSE, None), "Tokyo Night", "resolved")
        IN  /\ pc = n.pc
            /\ session = n.session
            /\ current_theme = n.current_theme
            /\ features = n.features
            /\ windows = n.windows
            /\ tasks = n.tasks
            /\ last = n.last
            /\ next_id = 1
            /\ store = Store(FALSE, None)
            /\ boot_store = Store(FALSE, None)
            /\ saves = 0
            /\ saved = None
            /\ widget = ClickableText(passed_message)

NextWidget ==
    \/ Pressed
    \/ Released
    \/ Moved
    \/ DrainShell

SpecWidget == InitWidget /\ [][NextWidget]_vars

----------------------------------------------------------------------------
(* Reading a step *)

\* the chains update can have been called beside: all of them (an event or a
\* feature message) or all but the head of one (a resolved Task::done)
Bases == {tasks} \cup {Advanced(chain) : chain \in BagToSet(tasks)}

\* the chains update(m) can have been called beside: all of them when m came from
\* an event or a feature, all but the head of one when that head resolved to m
BasesOf(m, from) ==
    (IF from = 0 THEN {tasks} ELSE {})
    \cup {Advanced(chain) : chain \in {c \in BagToSet(tasks) : Head(c) = done(m, from)}}

\* this step is a call update(m), m built by the close of window from (0: none)
HandlesFrom(m, from) ==
    /\ last' = Last(m.tag, m.id, m.kind, from, last'.out, last'.log)
    /\ \E base \in BasesOf(m, from) : Update(m, from, base)
Handles(m) == HandlesFrom(m, last'.from)

\* this step's update returned exactly the chain task
Returns(task) == \E base \in Bases : tasks' = base (+) SetToBag({task})
ReturnsNone == tasks' \in Bases

IsOpen(id, kind) ==
    id \in DOMAIN windows /\ windows[id].window_type = kind /\ ~windows[id].is_closed
IsClosed(id, kind) ==
    id \in DOMAIN windows /\ windows[id].window_type = kind /\ windows[id].is_closed

\* this step called save(session) once and requested the process exit after it
SavesAndExits ==
    /\ saves' = saves + 1
    /\ saved' # None => store' = Store(TRUE, Some(to_string_pretty(session)))
    /\ CopiesIn(<<exit>>, tasks') = CopiesIn(<<exit>>, tasks) + 1
    /\ pc' = "running"

\* this step neither saved nor requested an exit
NeitherSavesNorExits ==
    /\ UNCHANGED <<saves, saved, store, session, windows, pc>>
    /\ ReturnsNone

----------------------------------------------------------------------------
(* Claims *)

\* C1: when update handles Open(kind) while the registry holds a non-closed entry of
\* that kind, it returns exactly the message Close(id) for the id of such an entry
\* and opens nothing: the registry is unchanged and no window id is taken.
C1_OpenTogglesClose ==
    [][\A kind \in ApplicationWindow :
          (Handles(Open(kind)) /\ \E id \in DOMAIN windows : IsOpen(id, kind))
          => /\ windows' = windows
             /\ next_id' = next_id
             /\ \E id \in DOMAIN windows :
                    IsOpen(id, kind) /\ Returns(<<done(Close(id), 0)>>)]_vars

\* C1 happens: Open(kind) was just answered by a Close for the open window of kind.
C1_Witness ==
    /\ last.tag = "Open" /\ last.out = "toggle_close"
    /\ \E id \in DOMAIN windows :
        /\ IsOpen(id, last.kind)
        /\ BagIn(<<done(Close(id), 0)>>, tasks)

\* C2: once Close(id) has marked the Root window id closed and the exit check of that
\* close runs, the session is saved and the exit requested, whatever the other
\* entries of the registry are.
C2_RootCloseAlwaysExits ==
    [][\A id \in DOMAIN windows :
          (HandlesFrom(ExitApplication, id) /\ IsClosed(id, Root))
          => SavesAndExits]_vars

\* C2 as amended: once Close(id) has marked the Root window id closed and the exit
\* check of that close runs with no Root entry open, the session is saved and the
\* exit requested, whatever the non-Root entries of the registry are.
C2_RootCloseExitsUnlessReopened ==
    [][\A id \in DOMAIN windows :
          (/\ HandlesFrom(ExitApplication, id)
           /\ IsClosed(id, Root)
           /\ ~\E r \in DOMAIN windows : IsOpen(r, Root))
          => SavesAndExits]_vars

\* C2 happens: the exit check of a closed Root window has just saved and requested
\* the exit while a window of another kind is open.
C2_Witness ==
    /\ last.tag = "ExitApplication" /\ last.out = "exit"
    /\ last.from \in DOMAIN windows
    /\ windows[last.from].window_type = Root /\ windows[last.from].is_closed
    /\ \E id \in DOMAIN windows : windows[id].window_type # Root /\ ~windows[id].is_closed
    /\ BagIn(<<exit>>, tasks) /\ saves >= 1

\* C3: the exit check of the close of a non-Root window, run while a Root entry is
\* open, saves nothing and requests no exit: it changes nothing and returns no work.
C3_NonRootCloseKeepsRunning ==
    [][\A id \in DOMAIN windows :
          (/\ HandlesFrom(ExitApplication, id)
           /\ windows[id].window_type # Root
           /\ \E r \in DOMAIN windows : IsOpen(r, Root))
          => NeitherSavesNorExits]_vars

\* C3 happens: a non-Root window was closed, its exit check has just run beside an
\* open Root window, and the process goes on.
C3_Witness ==
    /\ last.tag = "ExitApplication" /\ last.out = "noop"
    /\ last.from \in DOMAIN windows
    /\ windows[last.from].window_type # Root /\ windows[last.from].is_closed
    /\ \E r \in DOMAIN windows : IsOpen(r, Root)
    /\ pc = "running" /\ saves = 0

\* C4: the ExitApplication handler exits exactly when every entry of the registry is
\* closed or the Root kind's entry is closed, that is no entry of kind Root is open;
\* it then calls save(session) and requests the exit after it, and otherwise
\* changes nothing and returns no work.
C4_ExitCheckDecision ==
    [][Handles(ExitApplication)
       => IF \/ \A id \in DOMAIN windows : windows[id].is_closed
             \/ ~\E id \in DOMAIN windows : IsOpen(id, Root)
          THEN SavesAndExits /\ UNCHANGED <<windows, session>>
          ELSE NeitherSavesNorExits]_vars

\* C4 happens: an exit check has just decided to exit beside an open window, on the
\* closed Root entry alone.
C4_Witness ==
    /\ last.tag = "ExitApplication" /\ last.out = "exit"
    /\ \E id \in DOMAIN windows : ~windows[id].is_closed
    /\ BagIn(<<exit>>, tasks) /\ saves = 1

\* C5: Close(id) leaves the entry of id closed and every other entry as it was; on an
\* entry already closed, or an id the registry does not hold, it leaves the registry
\* as it is; no entry is added or removed and the handler returns its usual work.
C5_CloseIdempotent ==
    [][\A id \in DOMAIN windows \cup StaleIds :
          Handles(Close(id))
          => /\ DOMAIN windows' = DOMAIN windows
             /\ \A w \in DOMAIN windows :
                    windows'[w] = IF w = id THEN WindowInfo(windows[w].window_type, TRUE)
                                  ELSE windows[w]
             /\ (id \notin DOMAIN windows \/ windows[id].is_closed) => windows' = windows
             /\ pc' = "running"
             /\ Returns(<<window_close(id), done(ExitApplication, id)>>)]_vars

\* C5 happens: a second Close has just been handled for a window already closed.
C5_Witness ==
    /\ last.tag = "Close" /\ last.out = "already_closed"
    /\ last.id \in DOMAIN windows /\ windows[last.id].is_closed
    /\ pc = "running"

\* C6: after a save that returned Ok, load returns Some of the session that was
\* saved, for theme_selected none and for every theme name.
C6_SaveLoadRoundTrip ==
    saved # None => load(store) = saved

\* C6 happens: a session with a theme name was saved, and a run was started on it.
C6_Witness ==
    /\ saved # None
    /\ saved[1].theme_selected # None
    /\ store = Store(TRUE, Some(to_string_pretty(saved[1])))

\* the disks new() finds no preference on: no data directory, no session file, a
\* text that does not parse, or an object whose theme_selected is absent or null
NoPreferenceOn(st) ==
    \/ ~st.dir
    \/ st.file = None
    \/ ~st.file[1].valid
    \/ st.file[1].field \in {"absent", "null", "number"}

\* C7: on a disk with no data directory, no session file, a text that does not
\* parse, or an absent or null theme_selected, the application starts with the
\* default session, theme_selected = none.
C7_LoadFailureGivesDefault ==
    (pc # "panicked" /\ NoPreferenceOn(boot_store)) => session = DefaultSession

\* C7 happens: a run started on a session file that does not parse.
C7_Witness ==
    /\ pc = "running"
    /\ boot_store.file # None /\ ~boot_store.file[1].valid
    /\ session = DefaultSession
    /\ last.tag # "new"

\* C8: view(id) for an id that is no key of the registry returns the placeholder
\* "Window not found", and the process goes on.
C8_UnknownWindowPlaceholder ==
    (last.tag = "view" /\ last.id \notin DOMAIN windows)
    => (last.out = "Window not found" /\ pc # "panicked")

\* C8 happens: a view was just asked for an unknown id of a registry with entries.
C8_Witness ==
    /\ last.tag = "view" /\ last.id \notin DOMAIN windows
    /\ DOMAIN windows # {}
    /\ last.out = "Window not found"

\* C9: whenever the active theme name is not in the catalog, theme() returns the
\* fixed fallback theme and logs a warning.
C9_UnknownThemeWarns ==
    (last.tag = "theme" /\ current_theme \notin DOMAIN themes)
    => (last.out = "Dark" /\ last.log = "warn")

\* C10: from the empty registry, InitializeMainWindow leaves exactly one entry, Root
\* and open; Close of that id closes it and returns the toolkit close followed by
\* the exit check; that exit check saves the session and requests the exit after
\* the save; and the runtime exits only after a save.
C10_StartupToExit ==
    [][/\ (Handles(InitializeMainWindow) /\ DOMAIN windows = {})
          => windows' = (next_id :> WindowInfo(Root, FALSE))
       /\ \A id \in DOMAIN windows :
            /\ (Handles(Close(id)) /\ DOMAIN windows = {id} /\ IsOpen(id, Root))
               => /\ windows' = (id :> WindowInfo(Root, TRUE))
                  /\ Returns(<<window_close(id), done(ExitApplication, id)>>)
            /\ (HandlesFrom(ExitApplication, id) /\ DOMAIN windows = {id}
                    /\ IsClosed(id, Root))
               => SavesAndExits
       /\ (pc = "running" /\ pc' = "exited") => saves >= 1]_vars

\* C11: when the exit check has decided to exit and save(session) returned an I/O
\* error, the error is logged and the exit is requested all the same: the exit
\* effect is in flight until the runtime acts on it.
C11_SaveFailureStillExits ==
    (last.tag = "ExitApplication" /\ last.out = "exit" /\ saved = None)
    => /\ last.log = "error"
       /\ pc # "panicked"
       /\ pc = "running" => BagIn(<<exit>>, tasks)

\* C11 happens: the save of an exit check has just failed, the error was logged and
\* the exit effect is in flight.
C11_Witness ==
    /\ last.tag = "ExitApplication" /\ last.out = "exit"
    /\ saves = 1 /\ saved = None
    /\ last.log = "error"
    /\ pc = "running" /\ BagIn(<<exit>>, tasks)

\* the Task new() returns beside the application
InitialTask == SetToBag({<<done(InitializeMainWindow, 0)>>})

\* C12: new() returns an application with an empty window registry and the message
\* InitializeMainWindow as its scheduled work; and as long as no window id has been
\* taken nothing else has been handled, so that message is the first update sees.
C12_NewSchedulesInitializeMainWindow ==
    /\ last.tag = "new"
       => (pc = "running" /\ windows = <<>> /\ tasks = InitialTask)
    /\ (pc = "running" /\ next_id = 1)
       => (windows = <<>> /\ tasks = InitialTask /\ saves = 0)

\* C13: when the session new() loaded has theme_selected = some name, the active
\* theme of the application is that name, and theme() returns the catalog's theme of
\* that name when the catalog has it.
C13_StartupAppliesPreference ==
    session.theme_selected # None
    => /\ current_theme = session.theme_selected[1]
       /\ (last.tag = "theme" /\ session.theme_selected[1] \in DOMAIN themes)
          => last.out = themes[session.theme_selected[1]]

\* C14: the CloseRequested event of window id is handed to update as exactly
\* Close(id), and any other event of a window produces no message: nothing is
\* handled, no work is scheduled and the state of the application is unchanged.
C14_SubscriptionTranslation ==
    [][\A id \in DOMAIN windows :
          /\ Listen(WindowCloseRequested, id)
             => (Handles(Close(id)) /\ last'.from = 0)
          /\ \A event \in ToolkitEvents \ {WindowCloseRequested} :
                Listen(event, id)
                => /\ last'.tag = "subscription" /\ last'.out = "None"
                   /\ UNCHANGED <<pc, session, current_theme, widget, features, windows, next_id, tasks,
                                  store, saves, saved>>]_vars

\* C14 happens: a close request was translated to the Close that closed its window,
\* and another event of that window has just produced no message.
C14_Witness ==
    /\ last.tag = "subscription" /\ last.out = "None"
    /\ last.id \in DOMAIN windows /\ windows[last.id].is_closed
    /\ pc = "running"

\* C15: for every command whose process was spawned, execute_cmd returns an error
\* whose text carries what the process wrote to stderr whenever it wrote any, and
\* otherwise Ok of what it wrote to stdout, the empty string when it wrote nothing.
\* (update logs at error level exactly when execute_cmd returned an Err.)
C15_ExecuteCmdResult ==
    \A cmd \in Commands :
        (last.tag = "ExecuteCommand" /\ last.kind = cmd /\ output(cmd).spawned)
        => IF output(cmd).stderr # <<>>
           THEN /\ last.log = "error"
                /\ last.out = "Failed to execute command: "
                                \o from_utf8_lossy(output(cmd).stderr)
           ELSE /\ last.log = "info"
                /\ last.out = from_utf8_lossy(output(cmd).stdout)
                /\ output(cmd).stdout = <<>> => last.out = ""

\* C15 happens: a command that wrote to both stdout and stderr has just been run and
\* answered by the error made of its stderr text.
C15_Witness ==
    /\ last.tag = "ExecuteCommand" /\ last.kind = "make"
    /\ output("make").stdout # <<>>
    /\ last.log = "error"
    /\ last.out = "Failed to execute command: w\\uFFFD"

\* C16: in every state the application reaches under any sequence of messages, the
\* registry holds at most one entry with is_closed = false per window kind.
C16_OneOpenEntryPerKind ==
    \A kind \in ApplicationWindow : Cardinality(OpenIdsOf(windows, kind)) <= 1

\* C17: no step removes an entry from the registry or changes the kind of one, and
\* an entry whose is_closed is true keeps it true: the keys only grow and closed
\* entries stay closed.
C17_SoftDeleteRegistry ==
    [][\A id \in DOMAIN windows :
          /\ id \in DOMAIN windows'
          /\ windows'[id].window_type = windows[id].window_type
          /\ windows[id].is_closed => windows'[id].is_closed]_vars

\* C17 happens: a window has just been opened into a registry that still holds the
\* closed entry of an earlier window.
C17_Witness ==
    /\ last.tag = "Open" /\ last.out = "opened"
    /\ \E old, new_id \in DOMAIN windows :
        /\ old < new_id
        /\ windows[old].is_closed
        /\ ~windows[new_id].is_closed
        /\ next_id = new_id + 1

\* the Task close_window returns for window id
CloseTask(id) == <<window_close(id), done(ExitApplication, id)>>

\* C18: the step that handles Close(id) leaves the entry of id closed and returns
\* the toolkit close of id followed by the exit check, in that order; the toolkit
\* close runs on an entry already closed; and the exit check of that close is
\* delivered only after the toolkit close ran and finds the entry closed.
C18_CloseOrdering ==
    [][\A id \in DOMAIN windows :
          /\ Handles(Close(id))
             => (windows'[id].is_closed /\ Returns(CloseTask(id)))
          /\ (BagIn(CloseTask(id), tasks) /\ tasks' = Advanced(CloseTask(id))
                /\ last' = last)
             => windows[id].is_closed
          /\ HandlesFrom(ExitApplication, id)
             => /\ windows[id].is_closed
                /\ BagIn(Tail(CloseTask(id)), tasks)
                /\ CopiesIn(Tail(CloseTask(id)), tasks')
                       = CopiesIn(Tail(CloseTask(id)), tasks) - 1]_vars

\* C18 happens: a window was closed, the toolkit close and then the exit check of
\* that close have run, and the exit check found the entry closed beside an open
\* Root window.
C18_Witness ==
    /\ last.tag = "ExitApplication" /\ last.from \in DOMAIN windows
    /\ windows[last.from].is_closed
    /\ ~BagIn(CloseTask(last.from), tasks)
    /\ ~BagIn(Tail(CloseTask(last.from)), tasks)
    /\ last.out = "noop" /\ pc = "running"

\* C19: a step that handles Open(kind) while no entry of kind is open requests one
\* new toolkit window and inserts exactly one entry, kind and open, under the fresh
\* id, every other entry unchanged; and a window the toolkit is asked to open is
\* already registered, so a Close of its id finds the entry.
C19_OpenInsertsEntry ==
    [][/\ \A kind \in ApplicationWindow :
            (Handles(Open(kind)) /\ OpenIdsOf(windows, kind) = {})
            => /\ next_id \notin DOMAIN windows
               /\ windows' = (next_id :> WindowInfo(kind, FALSE)) @@ windows
               /\ Returns(<<window_open(next_id)>>)
               /\ pc' = "running"
       /\ \A chain \in BagToSet(tasks') :
            Head(chain).op = "window_open"
            => /\ Head(chain).id \in DOMAIN windows'
               /\ close_window(windows', Head(chain).id).windows[Head(chain).id].is_closed
      ]_vars

\* C20: in one run save(session) is called at most once, whatever messages are
\* handled before the exit takes effect (load is called by new() alone).
C20_SavesAtMostOnce ==
    saves <= 1

\* C21: a view asked for the id of a window whose Close has been handled returns
\* the placeholder "Window not found", not the feature view of the window's kind.
C21_ClosedWindowNotFound ==
    (last.tag = "view" /\ last.id \in DOMAIN windows /\ windows[last.id].is_closed)
    => last.out = "Window not found"

\* C22: whatever messages were handled, the session is the one new() obtained from
\* the disk it started on, and a save that returned Ok wrote exactly that session.
C22_SessionUnchangedByCore ==
    /\ session = unwrap_or_default(load(boot_store))
    /\ saved # None
       => /\ saved = Some(unwrap_or_default(load(boot_store)))
          /\ store = Store(TRUE, Some(to_string_pretty(unwrap_or_default(load(boot_store)))))

\* C22 happens: a run that loaded a theme preference handled its messages, saved
\* the session at its exit check and exited.
C22_Witness ==
    /\ pc = "exited"
    /\ boot_store.file # None /\ session.theme_selected # None
    /\ saves >= 1 /\ saved = Some(session)
    /\ \E id \in DOMAIN windows : windows[id].is_closed

\* C23: a step that handles a message of feature kind hands it to that feature's
\* update with that feature's slice: the slice becomes what the update makes of it,
\* the slices of all other features, the window registry and the session are
\* unchanged, and no work is scheduled.
C23_FeatureRoutingIsolation ==
    [][\A kind \in ApplicationWindow, msg \in Message :
          Handles(Feature(kind, msg))
          => /\ features'[kind] = feature_update(features[kind], msg)
             /\ \A other \in ApplicationWindow \ {kind} :
                    features'[other] = features[other]
             /\ UNCHANGED <<windows, session, store, saves, pc>>
             /\ ReturnsNone]_vars

\* C23 happens: a feature has just been sent a message while another feature held
\* a state of its own, and both slices hold what was sent to them.
C23_Witness ==
    /\ last.tag = "Feature" /\ last.out = "routed"
    /\ features[last.kind] = last.id
    /\ \E other \in ApplicationWindow \ {last.kind} :
        features[other] # FeaturesState[other] /\ features[other] # last.id

C25_ResourceFailuresAbsorbed ==
    /\ pc # "panicked"
    /\ last.tag = "new" => tasks = InitialTask
    /\ (last.tag \in {"InitializeMainWindow", "Open"} /\ last.log = "warn")
       => (last.out = "opened" /\ next_id - 1 \in DOMAIN windows)

\* C26: a step that handles ExecuteCommand, whether the command succeeded, could not
\* be spawned or wrote to stderr, returns no work, leaves the registry, the session,
\* the features and the store unchanged, and leaves the process running with the
\* work in flight untouched.
C26_ExecuteCommandKeepsLoop ==
    [][\A cmd \in Commands :
          Handles(ExecuteCommand(cmd))
          => /\ ReturnsNone
             /\ UNCHANGED <<windows, session, features, store, saves, saved, next_id>>
             /\ pc' = "running"]_vars

\* C26 happens: a command that could not be spawned has just been handled, the error
\* was logged, and the process runs on with its window open.
C26_Witness ==
    /\ last.tag = "ExecuteCommand" /\ ~output(last.kind).spawned
    /\ last.log = "error"
    /\ pc = "running"
    /\ \E id \in DOMAIN windows : ~windows[id].is_closed

\* Open(Root) has just been answered by the Close of the open Root window id
Toggled(id) ==
    /\ last.tag = "Open" /\ last.kind = Root /\ last.out = "toggle_close"
    /\ IsOpen(id, Root)
    /\ BagIn(<<done(Close(id), 0)>>, tasks)

C28_ExitCheckExitsWithoutOpenRoot ==
    [][(Handles(ExitApplication) /\ ~\E id \in DOMAIN windows : IsOpen(id, Root))
       => /\ SavesAndExits
          /\ UNCHANGED <<windows, session>>
          /\ last'.out = "exit"]_vars

\* C28 happens: the exit check has just saved and requested the exit on a registry
\* whose only entries are non-Root windows, one of them open.
C28_Witness ==
    /\ last.tag = "ExitApplication" /\ last.out = "exit"
    /\ windows # <<>>
    /\ \A id \in DOMAIN windows : windows[id].window_type # Root
    /\ \E id \in DOMAIN windows : ~windows[id].is_closed
    /\ BagIn(<<exit>>, tasks) /\ saves >= 1

\* C28 on the empty registry: the exit check has just saved and requested the exit.
C28_EmptyRegistryExits ==
    /\ last.tag = "ExitApplication" /\ last.out = "exit"
    /\ windows = <<>>
    /\ BagIn(<<exit>>, tasks) /\ saves >= 1

\* C29: when update handles Close(id) for an id the registry does not hold, the
\* registry is unchanged and gets no entry for id, and the Task returned is the
\* toolkit close of that id followed by the ExitApplication exit check.
C29_CloseUnknownId ==
    [][\A id \in StaleIds :
          (Handles(Close(id)) /\ id \notin DOMAIN windows)
          => /\ windows' = windows
             /\ id \notin DOMAIN windows'
             /\ Returns(<<window_close(id), done(ExitApplication, id)>>)
             /\ UNCHANGED <<pc, next_id, session, saves, store>>]_vars

\* C29 happens: Close has just been handled for an id that is not in the registry,
\* and the toolkit close with the exit check behind it is in flight.
C29_Witness ==
    /\ last.tag = "Close" /\ last.out = "unknown"
    /\ last.id \notin DOMAIN windows
    /\ BagIn(<<window_close(last.id), done(ExitApplication, last.id)>>, tasks)
    /\ pc = "running"

\* C30: over every sequence of mouse events, the widget publishes only its own
\* message and only on a left-button release with the cursor over it while a left
\* press that began over it is pending; is_pressed is false after every left-button
\* release; a widget with no message set never changes is_pressed and never
\* publishes.
C30_PressProtocol ==
    /\ [](widget.published # None
           => /\ widget.event = Some(LeftReleased)
              /\ widget.is_over
              /\ widget.was_armed
              /\ widget.published = widget.passed_message)
    /\ [](widget.event = Some(LeftReleased) => ~widget.state.is_pressed)
    /\ [][widget.passed_message = None
           => /\ widget'.state.is_pressed = widget.state.is_pressed
              /\ widget'.shell = widget.shell
              /\ widget'.published = None]_vars

\* C30 happens: a press over the widget was followed by a release over it, and the
\* widget's message has just been published.
C30_Witness ==
    /\ widget.event = Some(LeftReleased) /\ widget.is_over /\ widget.was_armed
    /\ widget.published = widget.passed_message /\ widget.published # None
    /\ ~widget.state.is_pressed
    /\ widget.shell # <<>>

====
